---- MODULE Spec2Model ----
(***************************************************************************)
(* Detection and threat-scoring pipeline of the IDS:                       *)
(*   IntrusionDetector.detect          src/src/detection/detector.py       *)
(*   DatabaseLogger                    src/src/database/logger.py          *)
(*   IPEnricher, VPNDetector, ThreatScorer   src/src/intelligence/         *)
(*                                                                         *)
(* Several callers run detect concurrently; every database operation opens *)
(* its own SQLite connection on the same file.                             *)
(*                                                                         *)
(* Numbers: a confidence is in percent (95 is 0.95); a probability, a      *)
(* severity and a weight are in tenths (7 is 0.7); a threat score is in    *)
(* tenths of a point (700 is 70.0).                                        *)
(***************************************************************************)
EXTENDS Integers, Sequences, FiniteSets, TLC

\* ------------------------------------------------------------------ bounds
MaxCalls == 2      \* detect calls started in one behaviour
MaxFaults == 1     \* database faults (locked, disk, I/O) injected in one behaviour
MaxWeight == 30    \* largest scoring weight tried, in tenths
MaxLookups == 4    \* direct enrich calls started in one behaviour
MaxTime == 4       \* wall time followed, in tenths of a second
CacheCapacity == 2 \* entries the lru_cache holds: maxsize (1000 in
                   \* ip_enrichment.py:24) scaled to the addresses tried

\* the concurrent callers of detect
Procs == {1, 2}

\* Python's None
None == "None"

VARIABLES
    config,          \* CONFIG: detection threshold(s), scoring weights
    pc,              \* pc[p]: where caller p stands in detect
    cur,             \* cur[p]: the call p is running, 0 when idle
    loc,             \* loc[p]: the locals of p's detect call
    calls,           \* detect calls started so far
    hist,            \* hist[k]: call k as its caller sees it
    attack_logs,     \* table attack_logs, in rowid order
    ip_statistics,   \* table ip_statistics, a set of rows
    port_statistics, \* table port_statistics, keyed by port
    cache,           \* lru_cache of IPEnricher.enrich
    netCalls,        \* requests.get calls issued so far
    clock,           \* datetime.now()
    faults,          \* database faults injected so far
    probe,           \* the latest application of a pure function
    resolved,        \* history: <<address, record, calls>> for every
                     \* successfully resolved record a direct enrich call
                     \* has returned, with the calls started until then
    batch,           \* detect_batch: calls collected, detected_attacks
    rate,            \* wall time of the latest timed step, and when each
                     \* outbound request was issued
    detector,        \* the IntrusionDetector: constructed or not, its
                     \* predictor's model, the model artifact on disk
    failed           \* history: <<address, calls>> for every "unknown"
                     \* record a direct enrich call has returned after a
                     \* failed request, while the cache has kept an entry
                     \* for the address

vars == <<config, pc, cur, loc, calls, hist, attack_logs,
          ip_statistics, port_statistics, cache, netCalls, clock, faults,
          probe, resolved, batch, rate, detector, failed>>

pipeVars == <<config, pc, cur, loc, calls, hist, attack_logs,
              ip_statistics, port_statistics, cache, netCalls, clock, faults,
              resolved, batch, rate, detector, failed>>

\* ------------------------------------------------------------ text values
\* A text is a sequence of characters, so that Python's `in` is a search.
Contains(text, sub) ==
    \E i \in 0..(Len(text) - Len(sub)) :
        \A j \in 1..Len(sub) : text[i + j] = sub[j]

LowerChar(c) ==
    CASE c = "A" -> "a"
      [] c = "S" -> "s"
      [] c = "E" -> "e"
      [] c = "L" -> "l"
      [] c = "U" -> "u"
      [] c = "C" -> "c"
      [] OTHER -> c

\* str.lower()
Lower(text) == [i \in 1..Len(text) |-> LowerChar(text[i])]

\* ----------------------------------------------------------- VPNDetector
vpn_keywords ==
    << <<"v","p","n">>, <<"p","r","o","x","y">>,
       <<"h","o","s","t","i","n","g">>,
       <<"d","a","t","a","c","e","n","t","e","r">>,
       <<"c","l","o","u","d">>, <<"a","m","a","z","o","n">>,
       <<"g","o","o","g","l","e">>,
       <<"m","i","c","r","o","s","o","f","t">>,
       <<"d","i","g","i","t","a","l"," ","o","c","e","a","n">>,
       <<"l","i","n","o","d","e">>, <<"o","v","h">>,
       <<"h","e","t","z","n","e","r">> >>

vpn_asn_prefixes ==
    << <<"A","S","1","6","5","0","9">>, <<"A","S","1","5","1","6","9">>,
       <<"A","S","8","0","7","5">>, <<"A","S","1","4","0","6","1">> >>

KeywordIncrement == 3
AsnIncrement == 4
VpnCutoff == 5

Min(a, b) == IF a < b THEN a ELSE b
Max(a, b) == IF a > b THEN a ELSE b

\* the keywords found in org or isp, the prefixes found in asn
KeywordHits(ip_info) ==
    {k \in 1..Len(vpn_keywords) :
        \/ Contains(Lower(ip_info.org), vpn_keywords[k])
        \/ Contains(Lower(ip_info.isp), vpn_keywords[k])}

AsnHits(ip_info) ==
    {a \in 1..Len(vpn_asn_prefixes) :
        Contains(Lower(ip_info.asn), Lower(vpn_asn_prefixes[a]))}

KeywordMatchesOrgOnly(keyword, org, isp) == Contains(org, keyword)

\* vpn_detector.py:45  keyword in org or keyword in isp
KeywordMatches(keyword, org, isp) ==
    Contains(org, keyword) \/ Contains(isp, keyword)

\* vpn_detector.py:51  asn_prefix.lower() in asn
AsnMatches(asn_prefix, asn) == Contains(asn, Lower(asn_prefix))

\* vpn_detector.py:44-47: the loop over vpn_keywords from the k-th on; acc is
\* the indicators list and the score so far
RECURSIVE KeywordLoop(_, _, _, _)
KeywordLoop(org, isp, k, acc) ==
    IF k > Len(vpn_keywords) THEN acc
    ELSE KeywordLoop(org, isp, k + 1,
            IF KeywordMatches(vpn_keywords[k], org, isp)
            THEN [indicators |-> Append(acc.indicators,
                                        <<"keyword", vpn_keywords[k]>>),
                  score |-> acc.score + KeywordIncrement]
            ELSE acc)

\* vpn_detector.py:50-53: the loop over vpn_asn_prefixes
RECURSIVE AsnLoop(_, _, _)
AsnLoop(asn, a, acc) ==
    IF a > Len(vpn_asn_prefixes) THEN acc
    ELSE AsnLoop(asn, a + 1,
            IF AsnMatches(vpn_asn_prefixes[a], asn)
            THEN [indicators |-> Append(acc.indicators, <<"asn", asn>>),
                  score |-> acc.score + AsnIncrement]
            ELSE acc)

IsVpnAboveSeven(probability) == probability > 7

\* vpn_detector.py:57
IsVpn(probability) == probability > VpnCutoff

\* vpn_detector.py:25-64; an absent or None field is the empty text
VPNDetect(ip_info) ==
    LET org == Lower(ip_info.org)
        isp == Lower(ip_info.isp)
        asn == Lower(ip_info.asn)
        keywords == KeywordLoop(org, isp, 1,
                                [indicators |-> <<>>, score |-> 0])
        all == AsnLoop(asn, 1, keywords)
        probability == Min(all.score, 10)
    IN  [is_vpn |-> IF IsVpn(probability) THEN 1 ELSE 0,
         probability |-> probability,
         indicators |-> all.indicators]

\* ---------------------------------------------------------- ThreatScorer
severity_weightsDosAsDefault(attack_type) ==
    CASE attack_type = "normal" -> 0
      [] attack_type = "probe" -> 3
      [] attack_type = "r2l" -> 7
      [] attack_type = "u2r" -> 10
      [] OTHER -> 5

\* threat_scoring.py:22-28, :44  severity_weights.get(attack_type.lower(), 0.5)
severity_weights(attack_type) ==
    CASE attack_type = "normal" -> 0
      [] attack_type = "probe" -> 3
      [] attack_type = "dos" -> 8
      [] attack_type = "r2l" -> 7
      [] attack_type = "u2r" -> 10
      [] OTHER -> 5

LowerLabel(label) == IF label = "DoS" THEN "dos" ELSE label

ClampScoreUnbounded(total_score) == Max(total_score, 0)

ClampScore(total_score) == Min(Max(total_score, 0), 1000)

calculate_score(attack_type, confidence, vpn_probability, weights) ==
    LET severity == severity_weights(LowerLabel(attack_type))
        confidence_score == confidence * weights.attack_confidence
        severity_score == 10 * severity * weights.attack_severity
        vpn_score == 10 * vpn_probability * weights.vpn_probability
    IN  ClampScore(confidence_score + severity_score + vpn_score)

\* ------------------------------------------------------------- inputs
T_Local == <<"L","o","c","a","l">>
T_Unknown == <<"U","n","k","n","o","w","n">>
T_AS0 == <<"A","S","0">>
T_Amazon == <<"A","m","a","z","o","n">>
T_AmazonAsn == <<"A","S","1","6","5","0","9"," ","A","m","a","z","o","n">>
T_None == <<>>
T_AmazonCloud == <<"A","m","a","z","o","n"," ","C","l","o","u","d">>
T_VpnProxy == <<"v","p","n"," ","p","r","o","x","y">>
T_TwoAsns == <<"A","S","1","5","1","6","9"," ","A","S","8","0","7","5">>

LocalAddressesNoLoopback == {"localhost", "0.0.0.0"}

\* ip_enrichment.py:35
LocalAddresses == {"127.0.0.1", "localhost", "0.0.0.0"}
Addresses == {"203.0.113.5", "127.0.0.1"}

\* traffic_data; destination_port 0 stands for an absent (None) or zero port,
\* which `if traffic_data.get('destination_port')` treats alike
Observations ==
    {[source_ip |-> "203.0.113.5", destination_port |-> 80,
      src_bytes |-> 5, dst_bytes |-> 2],
     [source_ip |-> "203.0.113.5", destination_port |-> 0,
      src_bytes |-> 3, dst_bytes |-> 0],
     [source_ip |-> "127.0.0.1", destination_port |-> 0,
      src_bytes |-> 1, dst_bytes |-> 1]}

\* labels the classifier emits (label_encoder.classes_): the benign one, known
\* attack categories, and one outside dos/probe/r2l/u2r
\* what predict_single may return: the boundary cases of every threshold
Predictions ==
    {[predicted_class |-> "normal", confidence |-> 0],
     [predicted_class |-> "normal", confidence |-> 99],
     [predicted_class |-> "dos", confidence |-> 70],
     [predicted_class |-> "dos", confidence |-> 99],
     [predicted_class |-> "worm", confidence |-> 69],
     [predicted_class |-> "worm", confidence |-> 70]}

DefaultWeights ==
    [attack_confidence |-> 4, attack_severity |-> 4, vpn_probability |-> 2]

\* CONFIG['detection'] and the scorer's weights
Configs ==
    {[threshold |-> 70, thresholds |-> ("dos" :> 99),
      weights |-> DefaultWeights]}

\* ------------------------------------------------------------ IPEnricher
_get_localhost_info ==
    [ip |-> "127.0.0.1", country |-> "Local",
     org |-> T_Local, isp |-> T_Local, asn |-> T_AS0]

_get_unknown_info(ip) ==
    [ip |-> ip, country |-> "Unknown",
     org |-> T_Unknown, isp |-> T_Unknown, asn |-> T_Unknown]

\* what the geolocation service may answer for ip with status success
GeoResponses(ip) ==
    {[ip |-> ip, country |-> "US",
      org |-> T_Amazon, isp |-> T_Amazon, asn |-> T_AmazonAsn]}

\* how one requests.get may end: a 200 response whose body says success, a
\* timeout, a transport error, a status other than 200, a body that is not
\* JSON, or a body whose status is not "success"
FailureKinds ==
    {"timeout", "transport_error", "non_200", "malformed_body", "status_fail"}

Outcomes(ip) ==
    {[kind |-> "success", body |-> r] : r \in GeoResponses(ip)}
    \cup {[kind |-> k] : k \in FailureKinds}

\* the failures the detector's own runs go through
PipelineOutcomes(ip) ==
    {o \in Outcomes(ip) : o.kind \in {"success", "timeout"}}

Raised == [ip |-> "", country |-> "raised",
           org |-> <<>>, isp |-> <<>>, asn |-> <<>>]

EnrichResultRaising(ip, outcome) ==
    IF outcome.kind = "success" THEN outcome.body ELSE Raised

\* ip_enrichment.py:38-72: what enrich returns for one outcome of the request
EnrichResult(ip, outcome) ==
    IF outcome.kind \in {"timeout", "transport_error"}
    THEN _get_unknown_info(ip)                \* :48 raises, :70-72
    ELSE IF outcome.kind = "non_200"
    THEN _get_unknown_info(ip)                \* :50 false, :67-68
    ELSE IF outcome.kind = "malformed_body"
    THEN _get_unknown_info(ip)                \* :51 raises, :70-72
    ELSE IF outcome.kind = "status_fail"
    THEN _get_unknown_info(ip)                \* :53 false, :67-68
    ELSE outcome.body                         \* :54-65

\* functools.lru_cache(maxsize): the entries from least to most recently used
CacheKeys(c) == {c[i].key : i \in 1..Len(c)}

CacheGet(c, key) == (CHOOSE i \in 1..Len(c) : c[i].key = key)

\* a hit moves the entry to the most recently used end
CacheTouch(c, key) ==
    LET i == CacheGet(c, key)
    IN  SubSeq(c, 1, i - 1) \o SubSeq(c, i + 1, Len(c)) \o <<c[i]>>

CachePutOverwriting(c, key, result) ==
    IF key \in CacheKeys(c)
    THEN [c EXCEPT ![CacheGet(c, key)].result = result]
    ELSE IF Len(c) >= CacheCapacity
    THEN Append(Tail(c), [key |-> key, result |-> result])
    ELSE Append(c, [key |-> key, result |-> result])

\* a miss stores the result, unless the key was added during the call; a full
\* cache drops its least recently used entry
CachePut(c, key, result) ==
    IF key \in CacheKeys(c) THEN c
    ELSE IF Len(c) >= CacheCapacity
    THEN Append(Tail(c), [key |-> key, result |-> result])
    ELSE Append(c, [key |-> key, result |-> result])

NoInfo == [ip |-> "", country |-> "", org |-> <<>>, isp |-> <<>>, asn |-> <<>>]

\* --------------------------------------------------------------- detector
NoObs == [source_ip |-> "", destination_port |-> 0,
          src_bytes |-> 0, dst_bytes |-> 0]

InitLoc ==
    [obs |-> NoObs, predicted_class |-> "", confidence |-> 0,
     ip_info |-> NoInfo, is_vpn |-> 0, vpn_probability |-> 0,
     threat_score |-> 0, timestamp |-> 0, attack_id |-> 0,
     existing |-> FALSE]

IsBenignNever(predicted_class) == FALSE

\* detector.py:64
IsBenign(predicted_class) == predicted_class = "normal"

AttackThresholdDefaultOnly(predicted_class, cfg) == cfg.threshold

\* detector.py:68  self.thresholds.get(predicted_class, self.threshold)
AttackThreshold(predicted_class, cfg) ==
    IF predicted_class \in DOMAIN cfg.thresholds
    THEN cfg.thresholds[predicted_class]
    ELSE cfg.threshold

LowConfidenceInclusive(confidence, attack_threshold) ==
    confidence <= attack_threshold

\* detector.py:70
LowConfidence(confidence, attack_threshold) == confidence < attack_threshold

\* detect returns: the caller is free again, the locals are gone
Return(p) ==
    /\ pc' = [pc EXCEPT ![p] = "idle"]
    /\ cur' = [cur EXCEPT ![p] = 0]
    /\ loc' = [loc EXCEPT ![p] = InitLoc]

\* detector.py:65, 72: return None
Reject(p, verdict) ==
    /\ hist' = [hist EXCEPT ![cur[p]] =
                    [@ EXCEPT !.verdict = verdict, !.result = None]]
    /\ Return(p)

\* the call returns to its caller: None, or the record with its attack_id
Finish(p, result, attack_id, raised) ==
    /\ hist' = [hist EXCEPT ![cur[p]] =
                    [@ EXCEPT !.result = result, !.attack_id = attack_id,
                              !.raised = raised]]
    /\ Return(p)

\* detector.py:140-142  except Exception: log the error, return None
DetectExcept(p, raised) == Finish(p, None, 0, raised)

\* the model artifact on disk (Config.MODEL_PATH)
Artifacts == {"present", "missing", "corrupt"}

\* predictor.py:28-33: load raises FileNotFoundError when the artifact is
\* missing, and joblib.load raises on one it cannot read
LoadRaises(artifact) == artifact # "present"

ConstructSwallowing ==
    /\ detector.state = "none"
    /\ detector' = IF LoadRaises(detector.artifact)
                   THEN [detector EXCEPT !.state = "ready"]
                   ELSE [detector EXCEPT !.state = "ready",
                                         !.model = "loaded"]
    /\ UNCHANGED <<config, pc, cur, loc, calls, hist, attack_logs,
                   ip_statistics, port_statistics, cache, netCalls, clock,
                   faults, probe, resolved, batch, rate, failed>>

\* detector.py:25-44: IntrusionDetector() loads the model and re-raises
\* what load raises, so that no detector exists then
Construct ==
    /\ detector.state = "none"
    /\ detector' = IF LoadRaises(detector.artifact)
                   THEN [detector EXCEPT !.state = "failed"]
                   ELSE [detector EXCEPT !.state = "ready",
                                         !.model = "loaded"]
    /\ UNCHANGED <<config, pc, cur, loc, calls, hist, attack_logs,
                   ip_statistics, port_statistics, cache, netCalls, clock,
                   faults, probe, resolved, batch, rate, failed>>

\* a call record: where the threshold policy sent it ("benign": the return at
\* detector.py:65, "low_confidence": the one at :72, "accepted": on to :74),
\* the address of an accepted detection, what detect returned ("running"
\* until it returns) and which call raised into its except clause
NewCall ==
    [verdict |-> "pending", source_ip |-> "", result |-> "running",
     attack_id |-> 0, raised |-> ""]

\* detector.py:56-61: predict_single, which raises on a malformed observation
\* (into the except clause: None). Callers are interchangeable, so the free
\* caller with the lowest number takes the next observation.
Predict(p) ==
    /\ detector.state = "ready"
    /\ pc[p] = "idle"
    /\ \A q \in Procs : q < p => pc[q] # "idle"
    /\ calls < MaxCalls
    /\ calls' = calls + 1
    /\ IF detector.model = None /\ LoadRaises(detector.artifact)
       THEN \* predictor.py:66-67: the load on first use raises
            /\ hist' = ((calls + 1) :>
                          [NewCall EXCEPT !.verdict = "error",
                                          !.result = None,
                                          !.raised = "load"])
                       @@ hist
            /\ UNCHANGED <<pc, cur, loc, detector>>
       ELSE /\ detector' = [detector EXCEPT !.model = "loaded"]
            /\ \E obs \in Observations :
                \/ /\ hist' = ((calls + 1) :>
                                 [NewCall EXCEPT !.verdict = "error",
                                                 !.result = None,
                                                 !.raised = "predict_single"])
                              @@ hist
                   /\ UNCHANGED <<pc, cur, loc>>
                \/ \E pred \in Predictions :
                      /\ hist' = ((calls + 1) :> NewCall) @@ hist
                      /\ pc' = [pc EXCEPT ![p] = "classified"]
                      /\ cur' = [cur EXCEPT ![p] = calls + 1]
                      /\ loc' = [loc EXCEPT ![p] =
                                   [InitLoc EXCEPT
                                      !.obs = obs,
                                      !.predicted_class = pred.predicted_class,
                                      !.confidence = pred.confidence]]
    /\ UNCHANGED <<config, attack_logs, ip_statistics, port_statistics,
                   cache, netCalls, clock, faults, probe, resolved, batch,
                   rate, failed>>

\* detector.py:63-72: the benign check and the threshold check
ThresholdCheck(p) ==
    /\ pc[p] = "classified"
    /\ IF IsBenign(loc[p].predicted_class)
       THEN Reject(p, "benign")
       ELSE IF LowConfidence(loc[p].confidence,
                   AttackThreshold(loc[p].predicted_class, config))
       THEN Reject(p, "low_confidence")
       ELSE /\ hist' = [hist EXCEPT ![cur[p]].verdict = "accepted",
                                    ![cur[p]].source_ip = loc[p].obs.source_ip]
            /\ pc' = [pc EXCEPT ![p] = "accepted"]
            /\ UNCHANGED <<cur, loc>>
    /\ UNCHANGED <<config, calls, attack_logs, ip_statistics,
                   port_statistics, cache, netCalls, clock, faults,
                   probe, resolved, batch, rate, detector, failed>>

\* detector.py:75 (every observation of the model carries a source_ip)
SourceIp(p) == loc[p].obs.source_ip

\* detector.py:82-127: VPN assessment, threat score, the record stamped now
Assembled(l, ip_info, now, cfg) ==
    LET vpn_info == VPNDetect(ip_info)
    IN  [l EXCEPT
           !.ip_info = ip_info,
           !.is_vpn = vpn_info.is_vpn,
           !.vpn_probability = vpn_info.probability,
           !.threat_score = calculate_score(l.predicted_class, l.confidence,
                                vpn_info.probability, cfg.weights),
           !.timestamp = now]

\* detector.py:80 -> ip_enrichment.py:24-48: the lru_cache lookup, the local
\* addresses, or the start of the outbound request (sleep, requests.get);
\* with the enrichment in hand detect goes on to detector.py:82-127
EnrichLookupStep(p) ==
    /\ pc[p] = "accepted"
    /\ IF SourceIp(p) \in CacheKeys(cache)
       THEN /\ loc' = [loc EXCEPT ![p] =
                   Assembled(@, cache[CacheGet(cache, SourceIp(p))].result,
                             clock + 1, config)]
            /\ clock' = clock + 1
            /\ cache' = CacheTouch(cache, SourceIp(p))
            /\ pc' = [pc EXCEPT ![p] = "assembled"]
            /\ UNCHANGED netCalls
       ELSE IF SourceIp(p) \in LocalAddresses
       THEN /\ loc' = [loc EXCEPT ![p] =
                   Assembled(@, _get_localhost_info, clock + 1, config)]
            /\ clock' = clock + 1
            /\ cache' = CachePut(cache, SourceIp(p), _get_localhost_info)
            /\ pc' = [pc EXCEPT ![p] = "assembled"]
            /\ UNCHANGED netCalls
       ELSE /\ netCalls' = netCalls + 1
            /\ pc' = [pc EXCEPT ![p] = "fetching"]
            /\ UNCHANGED <<loc, cache, clock>>
    /\ UNCHANGED <<config, cur, calls, hist, attack_logs,
                   ip_statistics, port_statistics, faults,
                   probe, resolved, batch, detector>>

\* the lookup of a call whose timing is not followed
EnrichLookup(p) ==
    /\ EnrichLookupStep(p)
    /\ UNCHANGED <<rate, failed>>

\* ip_enrichment.py:48-72: the request ends with outcome; lru_cache stores
\* what enrich returns.  An exception leaving enrich would end detect at
\* detector.py:140-142.
EnrichFetchOn(p, outcome) ==
    /\ pc[p] = "fetching"
    /\ LET info == EnrichResult(SourceIp(p), outcome)
       IN  IF info = Raised
           THEN /\ DetectExcept(p, "enrich")
                /\ UNCHANGED <<cache, clock>>
           ELSE /\ loc' = [loc EXCEPT ![p] =
                                Assembled(@, info, clock + 1, config)]
                /\ cache' = CachePut(cache, SourceIp(p), info)
                /\ clock' = clock + 1
                /\ pc' = [pc EXCEPT ![p] = "assembled"]
                /\ UNCHANGED <<cur, hist>>
    /\ UNCHANGED <<config, calls, attack_logs, ip_statistics,
                   port_statistics, netCalls, faults, batch, detector>>

\* the request of a detect call ends
EnrichFetch(p) ==
    /\ \E outcome \in PipelineOutcomes(SourceIp(p)) :
          EnrichFetchOn(p, outcome)
    /\ UNCHANGED <<probe, resolved, rate, failed>>

\* detector.py:94-127: attack_data as the logger reads it
AttackData(p) ==
    [raw_features |-> cur[p],
     timestamp |-> loc[p].timestamp,
     source_ip |-> SourceIp(p),
     destination_port |-> loc[p].obs.destination_port,
     attack_type |-> loc[p].predicted_class,
     confidence |-> loc[p].confidence,
     src_bytes |-> loc[p].obs.src_bytes,
     dst_bytes |-> loc[p].obs.dst_bytes,
     country |-> loc[p].ip_info.country,
     is_vpn |-> loc[p].is_vpn,
     vpn_probability |-> loc[p].vpn_probability,
     threat_score |-> loc[p].threat_score]

\* ---------------------------------------------------------- DatabaseLogger
\* logger.py:37-84: the INSERT into attack_logs, lastrowid, commit
LogAttackRow(attack_data, rowid) ==
    [id |-> rowid,
     raw_features |-> attack_data.raw_features,
     timestamp |-> attack_data.timestamp,
     source_ip |-> attack_data.source_ip,
     destination_port |-> attack_data.destination_port,
     attack_type |-> attack_data.attack_type,
     confidence |-> attack_data.confidence,
     country |-> attack_data.country,
     is_vpn |-> attack_data.is_vpn,
     vpn_probability |-> attack_data.vpn_probability,
     threat_score |-> attack_data.threat_score]

\* logger.py:119-120, 138-139: 1 if attack_type == <category> else 0
CategoryFlag(attack_type, category) ==
    IF LowerLabel(attack_type) = category THEN 1 ELSE 0

\* a row created without its connection counted
InsertedIpRowNoConnection(attack_data) ==
    [ip_address |-> attack_data.source_ip,
     first_seen |-> attack_data.timestamp,
     last_seen |-> attack_data.timestamp,
     total_attacks |-> 1,
     dos_attacks |-> CategoryFlag(attack_data.attack_type, "dos"),
     probe_attacks |-> CategoryFlag(attack_data.attack_type, "probe"),
     r2l_attacks |-> CategoryFlag(attack_data.attack_type, "r2l"),
     u2r_attacks |-> CategoryFlag(attack_data.attack_type, "u2r"),
     total_connections |-> 0,
     total_bytes_sent |-> attack_data.src_bytes,
     total_bytes_received |-> attack_data.dst_bytes,
     country |-> attack_data.country,
     is_vpn |-> attack_data.is_vpn,
     vpn_probability |-> attack_data.vpn_probability,
     threat_score |-> attack_data.threat_score,
     updated_at |-> attack_data.timestamp]

\* logger.py:128-145: the row INSERT creates
InsertedIpRow(attack_data) ==
    [ip_address |-> attack_data.source_ip,
     first_seen |-> attack_data.timestamp,
     last_seen |-> attack_data.timestamp,
     total_attacks |-> 1,
     dos_attacks |-> CategoryFlag(attack_data.attack_type, "dos"),
     probe_attacks |-> CategoryFlag(attack_data.attack_type, "probe"),
     r2l_attacks |-> CategoryFlag(attack_data.attack_type, "r2l"),
     u2r_attacks |-> CategoryFlag(attack_data.attack_type, "u2r"),
     total_connections |-> 1,
     total_bytes_sent |-> attack_data.src_bytes,
     total_bytes_received |-> attack_data.dst_bytes,
     country |-> attack_data.country,
     is_vpn |-> attack_data.is_vpn,
     vpn_probability |-> attack_data.vpn_probability,
     threat_score |-> attack_data.threat_score,
     updated_at |-> attack_data.timestamp]

UpdatedIpRowRestamped(row, attack_data) ==
    [InsertedIpRow(attack_data) EXCEPT
        !.total_attacks = row.total_attacks + 1,
        !.dos_attacks = row.dos_attacks
                        + CategoryFlag(attack_data.attack_type, "dos"),
        !.probe_attacks = row.probe_attacks
                          + CategoryFlag(attack_data.attack_type, "probe"),
        !.r2l_attacks = row.r2l_attacks
                        + CategoryFlag(attack_data.attack_type, "r2l"),
        !.u2r_attacks = row.u2r_attacks
                        + CategoryFlag(attack_data.attack_type, "u2r"),
        !.total_connections = row.total_connections + 1,
        !.total_bytes_sent = row.total_bytes_sent + attack_data.src_bytes,
        !.total_bytes_received = row.total_bytes_received
                                 + attack_data.dst_bytes]

\* logger.py:106-126: the row UPDATE leaves
UpdatedIpRow(row, attack_data) ==
    [ip_address |-> row.ip_address,
     first_seen |-> row.first_seen,
     last_seen |-> attack_data.timestamp,
     total_attacks |-> row.total_attacks + 1,
     dos_attacks |-> row.dos_attacks
                     + CategoryFlag(attack_data.attack_type, "dos"),
     probe_attacks |-> row.probe_attacks
                       + CategoryFlag(attack_data.attack_type, "probe"),
     r2l_attacks |-> row.r2l_attacks
                     + CategoryFlag(attack_data.attack_type, "r2l"),
     u2r_attacks |-> row.u2r_attacks
                     + CategoryFlag(attack_data.attack_type, "u2r"),
     total_connections |-> row.total_connections + 1,
     total_bytes_sent |-> row.total_bytes_sent + attack_data.src_bytes,
     total_bytes_received |-> row.total_bytes_received
                              + attack_data.dst_bytes,
     country |-> attack_data.country,
     is_vpn |-> attack_data.is_vpn,
     vpn_probability |-> attack_data.vpn_probability,
     threat_score |-> attack_data.threat_score,
     updated_at |-> attack_data.timestamp]

\* log_attack without its commit: the row is gone when the connection closes
LogAttackNoCommit(p) ==
    /\ pc[p] = "assembled"
    /\ \/ /\ loc' = [loc EXCEPT ![p].attack_id = Len(attack_logs) + 1]
          /\ pc' = [pc EXCEPT ![p] = "logged"]
          /\ UNCHANGED <<cur, hist, faults>>
       \/ /\ faults < MaxFaults
          /\ faults' = faults + 1
          /\ DetectExcept(p, "log_attack")
    /\ UNCHANGED <<config, calls, attack_logs, ip_statistics,
                   port_statistics, cache, netCalls, clock,
                   probe, resolved, batch, rate, detector, failed>>

\* detector.py:130 -> logger.py:29-91: INSERT, lastrowid, commit. A fault
\* (database locked past the timeout, disk or I/O error) rolls back and raises
\* into detect's except clause.
LogAttack(p) ==
    /\ pc[p] = "assembled"
    /\ \/ /\ attack_logs' = Append(attack_logs,
                 LogAttackRow(AttackData(p), Len(attack_logs) + 1))
          /\ loc' = [loc EXCEPT ![p].attack_id = Len(attack_logs) + 1]
          /\ pc' = [pc EXCEPT ![p] = "logged"]
          /\ UNCHANGED <<cur, hist, faults>>
       \/ /\ faults < MaxFaults
          /\ faults' = faults + 1
          /\ DetectExcept(p, "log_attack")
          /\ UNCHANGED attack_logs
    /\ UNCHANGED <<config, calls, ip_statistics, port_statistics,
                   cache, netCalls, clock, probe, resolved, batch, rate, detector,
                   failed>>

\* the rows WHERE ip_address = ?
IpRows(table, ip_address) == {row \in table : row.ip_address = ip_address}

\* the statistics SELECT issued before log_attack has run
UpdateIpSelectBeforeAppend(p) ==
    /\ pc[p] = "assembled"
    /\ loc' = [loc EXCEPT ![p].existing =
                   IpRows(ip_statistics, SourceIp(p)) # {}]
    /\ pc' = [pc EXCEPT ![p] = "selected"]
    /\ UNCHANGED <<config, cur, calls, hist, attack_logs,
                   ip_statistics, port_statistics, cache, netCalls, clock,
                   faults, probe, resolved, batch, rate, detector,
                   failed>>

\* detector.py:131 -> logger.py:99-100: SELECT ... WHERE ip_address = ?,
\* outside any transaction
UpdateIpSelect(p) ==
    /\ pc[p] = "logged"
    /\ loc' = [loc EXCEPT ![p].existing =
                   IpRows(ip_statistics, SourceIp(p)) # {}]
    /\ pc' = [pc EXCEPT ![p] = "selected"]
    /\ UNCHANGED <<config, cur, calls, hist, attack_logs,
                   ip_statistics, port_statistics, cache, netCalls, clock,
                   faults, probe, resolved, batch, rate, detector,
                   failed>>

\* logger.py:105-147: what the UPDATE or the INSERT leaves committed
IpStatisticsAfter(table, ip_address, existing, attack_data) ==
    IF existing
    THEN {IF row.ip_address = ip_address
          THEN UpdatedIpRow(row, attack_data)
          ELSE row : row \in table}
    ELSE table \cup {InsertedIpRow(attack_data)}

PrimaryKeyTakenNever(table, ip_address) == FALSE

\* schema.py:87  ip_address TEXT PRIMARY KEY: an INSERT for an address that
\* has a row fails
PrimaryKeyTaken(table, ip_address) == IpRows(table, ip_address) # {}

\* detector.py:133
HasDestinationPort(obs) == obs.destination_port # 0

\* detector.py:133-138. DatabaseLogger (logger.py:18-164) defines no
\* update_port_statistics: the call at detector.py:134 raises AttributeError
\* into the except clause.
PortAndReturn(p) ==
    IF HasDestinationPort(loc[p].obs)
    THEN DetectExcept(p, "update_port_statistics")
    ELSE Finish(p, "record", loc[p].attack_id, "")

\* logger.py:105-153, then detector.py:133-138. The UPDATE or INSERT takes
\* SQLite's write lock and holds it to the commit: other connections read the
\* rows as they were and cannot write, so statement and commit are one step.
\* An INSERT for an address that has a row by now violates the primary key
\* (schema.py:87); that and any fault roll back and raise (logger.py:148-151).
UpdateIpWrite(p) ==
    /\ pc[p] = "selected"
    /\ \/ /\ IF /\ ~loc[p].existing
                /\ PrimaryKeyTaken(ip_statistics, SourceIp(p))
             THEN /\ DetectExcept(p, "update_ip_statistics")
                  /\ UNCHANGED ip_statistics
             ELSE /\ ip_statistics' =
                        IpStatisticsAfter(ip_statistics, SourceIp(p),
                                          loc[p].existing, AttackData(p))
                  /\ PortAndReturn(p)
          /\ UNCHANGED faults
       \/ /\ faults < MaxFaults
          /\ faults' = faults + 1
          /\ DetectExcept(p, "update_ip_statistics")
          /\ UNCHANGED ip_statistics
    /\ UNCHANGED <<config, calls, attack_logs, port_statistics,
                   cache, netCalls, clock, probe, resolved, batch, rate, detector,
                   failed>>

\* ------------------------------------------------------------ specification
NoProbe == [op |-> "none"]

\* stores, cache and callers before the first call
Fresh ==
    /\ config \in Configs
    /\ pc = [p \in Procs |-> "idle"]
    /\ cur = [p \in Procs |-> 0]
    /\ loc = [p \in Procs |-> InitLoc]
    /\ calls = 0
    /\ hist = <<>>
    /\ attack_logs = <<>>
    /\ ip_statistics = {}
    /\ port_statistics = <<>>
    /\ cache = <<>>
    /\ netCalls = 0
    /\ clock = 0
    /\ faults = 0
    /\ probe = NoProbe
    /\ resolved = {}
    /\ batch = [collected |-> 0, detected_attacks |-> <<>>]
    /\ rate = [time |-> 0, requests |-> <<>>]
    /\ failed = {}

\* the detector has been constructed: its model is loaded
Init ==
    /\ Fresh
    /\ detector = [state |-> "ready", model |-> "loaded",
                   artifact |-> "present"]

Next ==
    \E p \in Procs :
        \/ Predict(p)
        \/ ThresholdCheck(p)
        \/ EnrichLookup(p)
        \/ EnrichFetch(p)
        \/ LogAttack(p)
        \/ UpdateIpSelect(p)
        \/ UpdateIpWrite(p)

Spec == Init /\ [][Next]_vars

\* ---------------------------------------------- the threat scorer on its own
ScoreLabels == {"normal", "probe", "dos", "r2l", "u2r", "worm", "DoS"}
ScoreConfidences == {0, 50, 95, 100}
ScoreVpnProbabilities == {0, 3, 7, 10}
ScoreWeightValues == {0, 2, 4, 10, MaxWeight}
ScoreWeights ==
    [attack_confidence : ScoreWeightValues,
     attack_severity : ScoreWeightValues,
     vpn_probability : ScoreWeightValues]

\* threat_scoring.py:30-55 applied to one combination of inputs
Score ==
    /\ probe = NoProbe
    /\ \E attack_type \in ScoreLabels, confidence \in ScoreConfidences,
          vpn_probability \in ScoreVpnProbabilities, weights \in ScoreWeights :
          probe' = [op |-> "calculate_score", attack_type |-> attack_type,
                    confidence |-> confidence,
                    vpn_probability |-> vpn_probability, weights |-> weights,
                    out |-> calculate_score(attack_type, confidence,
                                            vpn_probability, weights)]
    /\ UNCHANGED pipeVars

NextScore == Score

SpecScore == Init /\ [][NextScore]_vars

\* ----------------------------------------------------------------- start-up
\* the process before IntrusionDetector() is called
InitStart ==
    /\ Fresh
    /\ \E artifact \in Artifacts :
          detector = [state |-> "none", model |-> None, artifact |-> artifact]

\* construction, then one caller's detect calls
NextStart ==
    \/ Construct
    \/ Predict(1)
    \/ ThresholdCheck(1)
    \/ EnrichLookup(1)
    \/ EnrichFetch(1)
    \/ LogAttack(1)
    \/ UpdateIpSelect(1)
    \/ UpdateIpWrite(1)

SpecStart == InitStart /\ [][NextStart]_vars

\* ------------------------------------------------------------ detect_batch
\* detector.py:156-157: the loop takes the next observation of the batch and
\* calls detect, once what the previous call returned has been looked at
BatchDetect ==
    /\ batch.collected = calls
    /\ Predict(1)

\* detector.py:158-159  if attack: detected_attacks.append(attack)
BatchAppend ==
    /\ pc[1] = "idle"
    /\ batch.collected < calls
    /\ batch' = [collected |-> calls,
                 detected_attacks |->
                     IF hist[calls].result = "record"
                     THEN Append(batch.detected_attacks,
                                 [call |-> calls,
                                  attack_id |-> hist[calls].attack_id])
                     ELSE batch.detected_attacks]
    /\ UNCHANGED <<config, pc, cur, loc, calls, hist, attack_logs,
                   ip_statistics, port_statistics, cache, netCalls, clock,
                   faults, probe, resolved, rate, detector,
                   failed>>

\* detect_batch run by one caller
NextBatch ==
    \/ BatchDetect
    \/ ThresholdCheck(1)
    \/ EnrichLookup(1)
    \/ EnrichFetch(1)
    \/ LogAttack(1)
    \/ UpdateIpSelect(1)
    \/ UpdateIpWrite(1)
    \/ BatchAppend

SpecBatch == Init /\ [][NextBatch]_vars

\* ------------------------------------------------- the enricher on its own
\* ip_enrichment.py:106  test_ips
EnrichAddresses == {"8.8.8.8", "1.1.1.1", "127.0.0.1"}

\* ip_enrichment.py:111, vpn_detector.py:74: a caller other than detect calls
\* enricher.enrich(ip)
Enrich(p) ==
    /\ pc[p] = "idle"
    /\ \A q \in Procs : q < p => pc[q] # "idle"
    /\ calls < MaxLookups
    /\ \E ip \in EnrichAddresses :
          loc' = [loc EXCEPT ![p] =
                     [InitLoc EXCEPT !.obs = [NoObs EXCEPT !.source_ip = ip]]]
    /\ pc' = [pc EXCEPT ![p] = "accepted"]
    /\ cur' = [cur EXCEPT ![p] = calls + 1]
    /\ calls' = calls + 1
    /\ UNCHANGED <<config, hist, attack_logs, ip_statistics,
                   port_statistics, cache, netCalls, clock, faults,
                   probe, resolved, batch, rate, detector, failed>>

\* the request of a direct call ends, in any of the ways it can; probe and
\* resolved keep what the call returned
EnrichFetchDirect(p) ==
    \E outcome \in Outcomes(SourceIp(p)) :
        /\ EnrichFetchOn(p, outcome)
        /\ probe' = [op |-> "enrich", ip_address |-> SourceIp(p),
                     kind |-> outcome.kind, out |-> loc'[p].ip_info]
        /\ resolved' = IF outcome.kind = "success" /\ pc'[p] = "assembled"
                       THEN resolved
                            \cup {<<SourceIp(p), loc'[p].ip_info, calls>>}
                       ELSE resolved
        /\ UNCHANGED <<rate, failed>>

\* the direct caller has its record
EnrichReturn(p) ==
    /\ pc[p] = "assembled"
    /\ Return(p)
    /\ UNCHANGED <<config, calls, hist, attack_logs, ip_statistics,
                   port_statistics, cache, netCalls, clock, faults,
                   probe, resolved, batch, rate, detector, failed>>

NextEnrich ==
    \E p \in Procs :
        \/ Enrich(p)
        \/ EnrichLookup(p)
        \/ EnrichFetchDirect(p)
        \/ EnrichReturn(p)

SpecEnrich == Init /\ [][NextEnrich]_vars

\* -------------------------------------------- the enricher's request times
\* ip_enrichment.py:22  rate_limit_delay = 0.2, in tenths of a second
RateLimitDelay == 2

\* when caller p issued its latest request
LastRequestAt(p) ==
    LET mine == {i \in DOMAIN rate.requests : rate.requests[i].caller = p}
    IN  IF mine = {} THEN 0
        ELSE rate.requests[CHOOSE i \in mine : \A j \in mine : j <= i].at

\* ip_enrichment.py:24-48 at wall time now: on a miss the caller sleeps
\* rate_limit_delay (:40) and then issues its request (:48)
EnrichLookupTimed(p) ==
    \E now \in rate.time..MaxTime :
        /\ EnrichLookupStep(p)
        /\ rate' = [time |-> now,
                    requests |->
                        IF pc'[p] = "fetching"
                        THEN Append(rate.requests,
                                    [caller |-> p,
                                     at |-> now + RateLimitDelay])
                        ELSE rate.requests]
        /\ UNCHANGED failed

\* the request ends, not before it was issued
EnrichFetchTimed(p) ==
    \E outcome \in Outcomes(SourceIp(p)) :
        \E now \in Max(rate.time, LastRequestAt(p))..MaxTime :
            /\ EnrichFetchOn(p, outcome)
            /\ rate' = [rate EXCEPT !.time = now]
            /\ UNCHANGED <<probe, resolved, failed>>

NextRate ==
    \E p \in Procs :
        \/ Enrich(p)
        \/ EnrichLookupTimed(p)
        \/ EnrichFetchTimed(p)
        \/ EnrichReturn(p)

SpecRate == Init /\ [][NextRate]_vars

\* ------------------------------------------- the enricher's failed lookups
\* the failed returns whose address still has a cache entry
KeptIn(c, returns) == {f \in returns : f[1] \in CacheKeys(c)}

\* ip_enrichment.py:24-48, following which entries the cache drops
EnrichLookupMemo(p) ==
    /\ EnrichLookupStep(p)
    /\ failed' = KeptIn(cache', failed)
    /\ UNCHANGED rate

\* ip_enrichment.py:48-72: the request ends in any of the ways it can; failed
\* keeps the calls that returned the "unknown" record of a failed request
EnrichFetchMemo(p) ==
    \E outcome \in Outcomes(SourceIp(p)) :
        /\ EnrichFetchOn(p, outcome)
        /\ failed' = KeptIn(cache',
                         IF outcome.kind # "success" /\ pc'[p] = "assembled"
                         THEN failed \cup {<<SourceIp(p), calls>>}
                         ELSE failed)
        /\ UNCHANGED <<probe, resolved, rate>>

NextMemo ==
    \E p \in Procs :
        \/ Enrich(p)
        \/ EnrichLookupMemo(p)
        \/ EnrichFetchMemo(p)
        \/ EnrichReturn(p)

SpecMemo == Init /\ [][NextMemo]_vars

\* ---------------------------------------------- the VPN detector on its own
VpnOrgs == {T_None, T_Unknown, T_Local, T_Amazon, T_AmazonCloud, T_VpnProxy}
VpnIsps == {T_None, T_Unknown, T_Local, T_Amazon, T_AmazonCloud, T_VpnProxy}
VpnAsns == {T_None, T_AS0, T_AmazonAsn, T_TwoAsns}

\* vpn_detector.py:25-64 applied to one enrichment record
Detect ==
    /\ probe = NoProbe
    /\ \E org \in VpnOrgs, isp \in VpnIsps, asn \in VpnAsns :
          LET ip_info == [ip |-> "203.0.113.5", country |-> "US",
                          org |-> org, isp |-> isp, asn |-> asn]
          IN  probe' = [op |-> "detect", ip_info |-> ip_info,
                        out |-> VPNDetect(ip_info)]
    /\ UNCHANGED pipeVars

NextVpn == Detect

SpecVpn == Init /\ [][NextVpn]_vars

\* ------------------------------------------------------------ definitions
Idle == \A p \in Procs : pc[p] = "idle"

Returned(k) == hist[k].result # "running"

Accepted(k) == hist[k].verdict = "accepted"

\* the attack_logs rows of call k (raw_features is the observation)
RowsOf(k) == {i \in 1..Len(attack_logs) : attack_logs[i].raw_features = k}

RowsFrom(ip) == {i \in 1..Len(attack_logs) : attack_logs[i].source_ip = ip}

AcceptedFrom(ip) ==
    {k \in DOMAIN hist : Accepted(k) /\ hist[k].source_ip = ip}

RECURSIVE SumTotalAttacks(_)
SumTotalAttacks(rows) ==
    IF rows = {} THEN 0
    ELSE LET row == CHOOSE r \in rows : TRUE
         IN  row.total_attacks + SumTotalAttacks(rows \ {row})

TotalAttacks(ip) == SumTotalAttacks(IpRows(ip_statistics, ip))

\* T(c): the per-category override when configured, else the global default
PolicyThreshold(c) ==
    IF c \in DOMAIN config.thresholds
    THEN config.thresholds[c]
    ELSE config.threshold

StoresUnchanged ==
    UNCHANGED <<attack_logs, ip_statistics, port_statistics, cache, netCalls>>

\* caller p takes the step that decides the threshold policy for its call
Decides(p) == pc[p] = "classified" /\ pc'[p] # "classified"

\* ------------------------------------------------------------------ claims

\* C1: N accepted detections from one address, their update_ip_statistics
\* steps interleaved in any order and no database fault occurring, leave the
\* address's ip_statistics row with total_attacks = N.
C1_UpsertAdditive ==
    (Idle /\ faults = 0) =>
        \A ip \in Addresses : TotalAttacks(ip) = Cardinality(AcceptedFrom(ip))

\* C2: for a non-benign predicted category c, detect accepts the detection
\* if and only if confidence >= T(c); a confidence equal to T(c) is accepted,
\* and a rejected call returns None.
C2_ThresholdInclusive ==
    [][\A p \in Procs :
          (Decides(p) /\ loc[p].predicted_class # "normal") =>
             /\ (pc'[p] = "accepted" /\ hist'[cur[p]].verdict = "accepted")
                   <=> (loc[p].confidence
                           >= PolicyThreshold(loc[p].predicted_class))
             /\ pc'[p] # "accepted" =>
                   (pc'[p] = "idle" /\ hist'[cur[p]].result = None)]_vars

C2_Witness ==
    \E p \in Procs :
        /\ pc[p] = "accepted"
        /\ loc[p].predicted_class = "dos"
        /\ "dos" \in DOMAIN config.thresholds
        /\ loc[p].confidence = config.thresholds["dos"]

\* C3: when the classifier predicts the benign category, detect returns None
\* whatever the confidence, without an enrichment lookup, a cache change or a
\* write to attack_logs, ip_statistics or port_statistics.
C3_BenignNoEffect ==
    [][\A p \in Procs :
          /\ (pc[p] = "idle" /\ pc'[p] # "idle"
                 /\ loc'[p].predicted_class = "normal") =>
                (pc'[p] = "classified" /\ StoresUnchanged)
          /\ (Decides(p) /\ loc[p].predicted_class = "normal") =>
                /\ pc'[p] = "idle"
                /\ hist'[cur[p]].result = None
                /\ hist'[cur[p]].verdict # "accepted"
                /\ StoresUnchanged]_vars

C3_Witness ==
    \E k \in DOMAIN hist :
        /\ hist[k].verdict = "benign"
        /\ hist[k].result = None
        /\ RowsOf(k) = {}

\* C4: a detection rejected by the threshold policy (confidence < T(c))
\* returns None, triggers no enrichment lookup and writes no row.
C4_RejectedNoEffect ==
    [][\A p \in Procs :
          (/\ Decides(p)
           /\ loc[p].predicted_class # "normal"
           /\ loc[p].confidence < PolicyThreshold(loc[p].predicted_class)) =>
             /\ pc'[p] = "idle"
             /\ hist'[cur[p]].result = None
             /\ hist'[cur[p]].attack_id = 0
             /\ StoresUnchanged]_vars

C4_Witness ==
    \E k \in DOMAIN hist :
        /\ hist[k].verdict = "low_confidence"
        /\ hist[k].result = None
        /\ RowsOf(k) = {}
        /\ netCalls = 0

\* C5 (as claimed): after any detect calls, persistence failures included, a
\* returned call has an attack_logs row if and only if it passed the
\* threshold policy.
C5_RecordIffAccepted ==
    \A k \in DOMAIN hist :
        Returned(k) => (Cardinality(RowsOf(k)) = 1 <=> Accepted(k))

\* C5 (amended): the attack_logs rows correspond one-to-one to the detect
\* calls that passed the threshold policy and whose log_attack did not fail:
\* every row is of a non-benign prediction with confidence >= T(c), no call
\* has two rows, and a returned call has a row if and only if it was accepted
\* and its append did not raise.
C5_RecordIffAcceptedAndAppended ==
    /\ \A i \in 1..Len(attack_logs) :
          /\ attack_logs[i].attack_type # "normal"
          /\ attack_logs[i].confidence
                >= PolicyThreshold(attack_logs[i].attack_type)
          /\ attack_logs[i].raw_features \in DOMAIN hist
          /\ Accepted(attack_logs[i].raw_features)
    /\ \A k \in DOMAIN hist :
          /\ Cardinality(RowsOf(k)) <= 1
          /\ Returned(k) =>
                (Cardinality(RowsOf(k)) = 1
                    <=> (Accepted(k) /\ hist[k].raised # "log_attack"))

C5_Witness ==
    \E k \in DOMAIN hist :
        /\ Returned(k) /\ Accepted(k)
        /\ hist[k].raised = "log_attack"
        /\ RowsOf(k) = {}
        /\ Len(attack_logs) = 1

\* C6: a call that passed the threshold policy and whose append and
\* IP-statistics upsert succeeded returns the record, carrying the id of the
\* row it inserted, with or without a destination port.
C6_ReturnsRecordWithId ==
    \A k \in DOMAIN hist :
        (/\ Returned(k) /\ Accepted(k)
         /\ hist[k].raised \notin {"log_attack", "update_ip_statistics"}) =>
            /\ hist[k].result = "record"
            /\ \E i \in RowsOf(k) : attack_logs[i].id = hist[k].attack_id

\* C7: if the statistics update fails after the attack record was appended,
\* the detection leaves no attack_logs row behind.
C7_AllOrNothing ==
    \A k \in DOMAIN hist :
        (Returned(k) /\ hist[k].raised = "update_ip_statistics") =>
            RowsOf(k) = {}

\* C8: a persistence failure during an accepted detection reaches the caller
\* as an outcome other than the None of a benign or rejected observation.
C8_FailureSurfaced ==
    \A k \in DOMAIN hist :
        (/\ Returned(k) /\ Accepted(k)
         /\ hist[k].raised \in {"log_attack", "update_ip_statistics"}) =>
            hist[k].result # None

\* C9: in every ip_statistics row total_attacks is the sum of the four
\* per-category counters, whatever non-benign label was detected.
C9_TotalIsSum ==
    \A row \in ip_statistics :
        row.total_attacks =
            row.dos_attacks + row.probe_attacks
            + row.r2l_attacks + row.u2r_attacks

\* C10: calculate_score is within [0,100] for every category, confidence and
\* vpn probability and for any non-negative weights, also when they sum to
\* more than 1.
C10_ScoreInRange ==
    probe.op = "calculate_score" => (probe.out >= 0 /\ probe.out <= 1000)

C10_Witness ==
    /\ probe.op = "calculate_score"
    /\ probe.weights.attack_confidence + probe.weights.attack_severity
          + probe.weights.vpn_probability > 10
    /\ probe.confidence * probe.weights.attack_confidence > 1000
    /\ probe.out = 1000

\* C11: calculate_score is clamp((confidence*Wc + severity*Ws + vpn*Wv)*100,
\* 0, 100) with severity 0.0 for normal, 0.3 for probe, 0.7 for r2l, 0.8 for
\* dos, 1.0 for u2r and 0.5 for any other category; dos at confidence 0.95
\* with vpn probability 0 under weights 0.4/0.4/0.2 scores 70.  (Scores are
\* in tenths of a point, severities and weights in tenths, confidence in
\* percent.)
C11_ScoreFormula ==
    probe.op = "calculate_score" =>
        LET category == IF probe.attack_type = "DoS" THEN "dos"
                        ELSE probe.attack_type
            sev == IF category = "normal" THEN 0
                   ELSE IF category = "probe" THEN 3
                   ELSE IF category = "r2l" THEN 7
                   ELSE IF category = "dos" THEN 8
                   ELSE IF category = "u2r" THEN 10
                   ELSE 5
            raw == probe.confidence * probe.weights.attack_confidence
                   + 10 * sev * probe.weights.attack_severity
                   + 10 * probe.vpn_probability * probe.weights.vpn_probability
        IN  /\ raw < 0 => probe.out = 0
            /\ raw > 1000 => probe.out = 1000
            /\ (raw >= 0 /\ raw <= 1000) => probe.out = raw
            /\ (/\ category = "dos" /\ probe.confidence = 95
                /\ probe.vpn_probability = 0
                /\ probe.weights = [attack_confidence |-> 4,
                                    attack_severity |-> 4,
                                    vpn_probability |-> 2])
               => probe.out = 700

C11_Witness ==
    /\ probe.op = "calculate_score"
    /\ probe.attack_type = "dos"
    /\ probe.confidence = 95
    /\ probe.vpn_probability = 0
    /\ probe.weights = DefaultWeights
    /\ probe.out = 700

T_amazon == <<"a","m","a","z","o","n">>

\* C12 as stated: for any enrichment record whose org contains "amazon" and
\* whose ASN contains a known prefix, detect returns probability 0.7 and
\* is_vpn true.
C12_AmazonAsnIsSeven ==
    (/\ probe.op = "detect"
     /\ Contains(Lower(probe.ip_info.org), T_amazon)
     /\ AsnHits(probe.ip_info) # {})
    => (probe.out.probability = 7 /\ probe.out.is_vpn = 1)

\* C12 amended: such a record gets probability at least 0.7 and is_vpn true;
\* the probability is exactly 0.7 when "amazon" is the only listed keyword in
\* org or ISP and exactly one listed prefix occurs in the ASN.
C12_AmazonAsnAtLeastSeven ==
    (/\ probe.op = "detect"
     /\ Contains(Lower(probe.ip_info.org), T_amazon)
     /\ AsnHits(probe.ip_info) # {})
    => /\ probe.out.probability >= 7
       /\ probe.out.probability <= 10
       /\ probe.out.is_vpn = 1
       /\ (Cardinality(KeywordHits(probe.ip_info)) = 1
           /\ Cardinality(AsnHits(probe.ip_info)) = 1)
          => probe.out.probability = 7

C12_Witness ==
    /\ probe.op = "detect"
    /\ probe.ip_info.org = T_Amazon
    /\ probe.ip_info.asn = T_AmazonAsn
    /\ probe.out.probability = 7
    /\ probe.out.is_vpn = 1

\* C13: the probability is min(1.0, 0.3*k + 0.4*a), k the number of listed
\* keywords occurring case-insensitively in org or ISP, a the number of listed
\* ASN prefixes occurring in the ASN; one indicator per match; the probability
\* lies in [0,1]; is_vpn holds exactly when the probability exceeds 0.5.
C13_ProbabilityFormula ==
    probe.op = "detect" =>
        LET k == Cardinality(KeywordHits(probe.ip_info))
            a == Cardinality(AsnHits(probe.ip_info))
            sum == 3 * k + 4 * a
        IN  /\ probe.out.probability = (IF sum > 10 THEN 10 ELSE sum)
            /\ Len(probe.out.indicators) = k + a
            /\ probe.out.probability >= 0
            /\ probe.out.probability <= 10
            /\ (probe.out.is_vpn = 1) <=> (probe.out.probability > 5)
            /\ probe.out.is_vpn \in {0, 1}

C13_Witness ==
    /\ probe.op = "detect"
    /\ probe.ip_info.org = T_AmazonCloud
    /\ probe.ip_info.isp = T_Amazon
    /\ probe.ip_info.asn = T_TwoAsns
    /\ Cardinality(KeywordHits(probe.ip_info)) = 2
    /\ Len(probe.out.indicators) = 4
    /\ probe.out.probability = 10

\* a lookup step of caller p: enrich is entered and the cache consulted
LooksUp(p) == pc[p] = "accepted" /\ pc'[p] # "accepted"

\* the request of caller p ends
RequestEnds(p) == pc[p] = "fetching" /\ pc'[p] # "fetching"

\* C14: enrich('127.0.0.1') never performs a network call and always returns
\* the fixed local record, in every state of the cache and after any earlier
\* lookups.
C14_LoopbackIsLocal ==
    [][\A p \in Procs :
          (LooksUp(p) /\ SourceIp(p) = "127.0.0.1")
          => /\ netCalls' = netCalls
             /\ pc'[p] = "assembled"
             /\ loc'[p].ip_info =
                    [ip |-> "127.0.0.1", country |-> "Local",
                     org |-> <<"L","o","c","a","l">>,
                     isp |-> <<"L","o","c","a","l">>,
                     asn |-> <<"A","S","0">>]]_vars

C14_Witness ==
    \E p \in Procs :
        /\ pc[p] = "assembled"
        /\ SourceIp(p) = "127.0.0.1"
        /\ loc[p].ip_info.country = "Local"
        /\ netCalls = 2
        /\ "127.0.0.1" \in CacheKeys(cache)
        /\ Len(cache) = 2
        /\ calls = 4

\* C15: enrich is total: whatever the request does (timeout, transport error,
\* non-200 status, malformed body, status other than success) it returns the
\* fixed "unknown" record for that address and never propagates an error.
C15_EnrichTotal ==
    [][\A p \in Procs :
          RequestEnds(p)
          => /\ pc'[p] = "assembled"
             /\ probe'.op = "enrich"
             /\ probe'.ip_address = SourceIp(p)
             /\ loc'[p].ip_info = probe'.out
             /\ probe'.kind \in {"timeout", "transport_error", "non_200",
                                 "malformed_body", "status_fail"}
                => probe'.out =
                      [ip |-> SourceIp(p), country |-> "Unknown",
                       org |-> <<"U","n","k","n","o","w","n">>,
                       isp |-> <<"U","n","k","n","o","w","n">>,
                       asn |-> <<"U","n","k","n","o","w","n">>]
             /\ probe'.kind = "success"
                => probe'.out \in GeoResponses(SourceIp(p))]_vars

C15_Witness ==
    \E p \in Procs :
        /\ pc[p] = "assembled"
        /\ probe.op = "enrich"
        /\ probe.kind = "malformed_body"
        /\ probe.ip_address = SourceIp(p)
        /\ loc[p].ip_info = probe.out
        /\ probe.out.country = "Unknown"

\* C16 as stated: once enrich(a) has returned a successfully resolved record,
\* every later enrich(a), after any number of lookups of other addresses,
\* returns that same record without a network call.
C16_ResolvedForLifetime ==
    [][\A p \in Procs :
          \A r \in resolved :
             (LooksUp(p) /\ r[1] = SourceIp(p) /\ r[3] < cur[p])
             => /\ netCalls' = netCalls
                /\ pc'[p] = "assembled"
                /\ loc'[p].ip_info = r[2]]_vars

\* the successfully resolved record the cache holds for address a, if any
CachedResolved(c, a) ==
    {c[i].result : i \in {j \in 1..Len(c) :
                             c[j].key = a /\ c[j].result \in GeoResponses(a)}}

\* C16 amended: while the cache holds a successfully resolved record for a,
\* every enrich(a) returns that record without a network call, and no step
\* replaces the record by another one: the entry stays as it is or is
\* evicted as the least recently used of a full cache.
C16_CachedRecordReturned ==
    [][\A a \in EnrichAddresses : \A r \in CachedResolved(cache, a) :
          /\ a \in CacheKeys(cache') => CachedResolved(cache', a) = {r}
          /\ a \notin CacheKeys(cache')
             => /\ Len(cache) >= CacheCapacity
                /\ cache[1].key = a
                /\ Len(cache') = Len(cache)
          /\ \A p \in Procs :
                (LooksUp(p) /\ SourceIp(p) = a)
                => /\ netCalls' = netCalls
                   /\ pc'[p] = "assembled"
                   /\ loc'[p].ip_info = r
                   /\ a \in CacheKeys(cache')]_vars

C16_Witness ==
    \E p \in Procs :
        /\ pc[p] = "assembled"
        /\ SourceIp(p) = "8.8.8.8"
        /\ loc[p].ip_info \in CachedResolved(cache, "8.8.8.8")
        /\ "1.1.1.1" \in CacheKeys(cache)
        /\ netCalls = 2
        /\ calls = 3

\* C17: a failed geolocation lookup never changes whether a detection is
\* raised.  The verdict is fixed before the lookup; no lookup step, whatever
\* the request's outcome, ends the call, touches its classification or the
\* attack log; with the enrichment in hand the append is possible whatever
\* the record says, and the appended row carries the classification as it
\* was: only the intelligence fields depend on the lookup.
C17_LookupKeepsVerdict ==
    [][\A p \in Procs :
          /\ (pc[p] \in {"accepted", "fetching"} /\ pc'[p] # pc[p])
             => /\ pc'[p] \in {"fetching", "assembled"}
                /\ hist' = hist
                /\ hist[cur[p]].verdict = "accepted"
                /\ hist[cur[p]].result = "running"
                /\ cur'[p] = cur[p]
                /\ attack_logs' = attack_logs
                /\ loc'[p].obs = loc[p].obs
                /\ loc'[p].predicted_class = loc[p].predicted_class
                /\ loc'[p].confidence = loc[p].confidence
          /\ pc[p] = "assembled"
             => ENABLED (LogAttack(p) /\ pc'[p] = "logged")
          /\ (pc[p] = "assembled" /\ pc'[p] = "logged")
             => /\ Len(attack_logs') = Len(attack_logs) + 1
                /\ SubSeq(attack_logs', 1, Len(attack_logs)) = attack_logs
                /\ LET row == attack_logs'[Len(attack_logs')]
                   IN  /\ row.source_ip = loc[p].obs.source_ip
                       /\ row.destination_port = loc[p].obs.destination_port
                       /\ row.attack_type = loc[p].predicted_class
                       /\ row.confidence = loc[p].confidence
                       /\ row.raw_features = cur[p]]_vars

C17_Witness ==
    /\ Len(attack_logs) = 2
    /\ attack_logs[1].source_ip = attack_logs[2].source_ip
    /\ attack_logs[1].attack_type = attack_logs[2].attack_type
    /\ attack_logs[1].confidence = attack_logs[2].confidence
    /\ attack_logs[1].destination_port = attack_logs[2].destination_port
    /\ attack_logs[1].country = "Unknown"
    /\ attack_logs[2].country = "US"

\* the calls among the first n that threshold policy accepted, in call order
RECURSIVE AcceptedUpTo(_)
AcceptedUpTo(n) ==
    IF n = 0 THEN <<>>
    ELSE IF hist[n].verdict = "accepted"
    THEN Append(AcceptedUpTo(n - 1), n)
    ELSE AcceptedUpTo(n - 1)

\* C18: detect_batch evaluates every observation, skipping one whose
\* evaluation raises, and returns exactly the accepted detections in the
\* order of their observations.
C18_BatchReturnsAccepted ==
    batch.collected = calls =>
        /\ Len(batch.detected_attacks) = Len(AcceptedUpTo(calls))
        /\ \A i \in 1..Len(batch.detected_attacks) :
              batch.detected_attacks[i].call = AcceptedUpTo(calls)[i]

\* C19: last_seen of an ip_statistics row never decreases from one state to
\* the next, across any sequence or concurrent interleaving of accepted
\* detections for the same address.
C19_LastSeenMonotonic ==
    [][\A row \in ip_statistics :
          /\ IpRows(ip_statistics', row.ip_address) # {}
          /\ \A after \in IpRows(ip_statistics', row.ip_address) :
                after.last_seen >= row.last_seen]_vars

\* C20: first_seen of an ip_statistics row is set once: no later
\* update_ip_statistics for the address changes it, and the row is never
\* deleted.
C20_FirstSeenSetOnce ==
    [][\A row \in ip_statistics :
          /\ IpRows(ip_statistics', row.ip_address) # {}
          /\ \A after \in IpRows(ip_statistics', row.ip_address) :
                after.first_seen = row.first_seen]_vars

C20_Witness ==
    \E row \in ip_statistics :
        /\ row.total_attacks = 2
        /\ row.first_seen # row.updated_at
        /\ \E i \in 1..Len(attack_logs) :
              /\ attack_logs[i].source_ip = row.ip_address
              /\ attack_logs[i].timestamp = row.first_seen

\* C21: ip_statistics holds at most one row per source address in every
\* reachable state, also when two first detections for a never-seen address
\* run their upserts concurrently.
C21_OneRowPerAddress ==
    \A r1 \in ip_statistics : \A r2 \in ip_statistics :
        r1.ip_address = r2.ip_address => r1 = r2

\* two calls for one address both found no row; one inserted, the other's
\* INSERT was refused
C21_Witness ==
    /\ faults = 0
    /\ \E k \in DOMAIN hist :
          /\ hist[k].raised = "update_ip_statistics"
          /\ Cardinality(IpRows(ip_statistics, hist[k].source_ip)) = 1
          /\ Cardinality(RowsFrom(hist[k].source_ip)) = 2

\* C22: an accepted detection whose observation carries a destination port
\* upserts the port_statistics row of that port; without a destination port
\* port_statistics is left unchanged.
C22_PortStatisticsUpserted ==
    \A k \in DOMAIN hist :
        (/\ Returned(k) /\ Accepted(k)
         /\ hist[k].raised \notin {"log_attack", "update_ip_statistics"}) =>
            \A i \in RowsOf(k) :
                attack_logs[i].destination_port # 0
                => attack_logs[i].destination_port \in DOMAIN port_statistics

\* C23: the detector cannot start without a loaded classifier: when loading
\* the model artifact fails, constructing IntrusionDetector fails, and no
\* detect call ever classifies while no model is loaded; a missing artifact
\* is never a per-event condition.
C23_NoDetectWithoutModel ==
    [][/\ (detector.state = "none" /\ detector' # detector)
          => IF detector.artifact = "present"
             THEN detector'.state = "ready" /\ detector'.model = "loaded"
             ELSE detector'.state = "failed" /\ detector'.model = None
       /\ detector.state = "failed"
          => (detector' = detector /\ calls' = calls)
       /\ calls' # calls
          => /\ detector.state = "ready"
             /\ detector.model = "loaded"
             /\ detector' = detector
             /\ hist'[calls'].raised # "load"]_vars

C23_Witness ==
    /\ detector.state = "failed"
    /\ detector.artifact = "missing"
    /\ detector.model = None
    /\ calls = 0

\* C24: the outbound enrichment call rate is limited process-wide: any two
\* outbound geolocation requests, whoever issues them, are at least the
\* configured spacing apart.
C24_RequestsSpaced ==
    \A i \in DOMAIN rate.requests : \A j \in DOMAIN rate.requests :
        (i # j /\ rate.requests[i].at <= rate.requests[j].at)
        => rate.requests[j].at - rate.requests[i].at >= RateLimitDelay

\* C25: population of the enrichment cache is single-writer-per-key: of two
\* concurrent callers asking for the same address that is not cached, at
\* most one is out on the network for it.
C25_SingleWriterPerKey ==
    \A p \in Procs : \A q \in Procs :
        (p # q /\ pc[p] = "fetching" /\ pc[q] = "fetching")
        => SourceIp(p) # SourceIp(q)

\* caller p takes the statistics step of its accepted detection, no fault
\* striking it
Upserts(p) == pc[p] = "selected" /\ pc'[p] # "selected" /\ faults' = faults

\* the four category counters of row count n more than those of base for the
\* detected category and the same for the others
CountersAdvance(row, base, attack_type, n) ==
    /\ row.dos_attacks = base.dos_attacks
                            + (IF LowerLabel(attack_type) = "dos" THEN n ELSE 0)
    /\ row.probe_attacks = base.probe_attacks
                            + (IF LowerLabel(attack_type) = "probe" THEN n ELSE 0)
    /\ row.r2l_attacks = base.r2l_attacks
                            + (IF LowerLabel(attack_type) = "r2l" THEN n ELSE 0)
    /\ row.u2r_attacks = base.u2r_attacks
                            + (IF LowerLabel(attack_type) = "u2r" THEN n ELSE 0)

NoCounters ==
    [dos_attacks |-> 0, probe_attacks |-> 0, r2l_attacks |-> 0,
     u2r_attacks |-> 0]

\* row carries the enrichment, VPN and threat-score values of the event
CarriesEvent(row, attack_data) ==
    /\ row.country = attack_data.country
    /\ row.is_vpn = attack_data.is_vpn
    /\ row.vpn_probability = attack_data.vpn_probability
    /\ row.threat_score = attack_data.threat_score

\* C26: the first accepted detection for an address creates its
\* ip_statistics row with first_seen = last_seen = the record's timestamp,
\* total_attacks = 1, the detected category's counter 1 and the others 0;
\* each later accepted detection for the address adds exactly 1 to
\* total_attacks and to the detected category's counter, adds the event's
\* byte counts to the byte totals and overwrites the enrichment, VPN and
\* threat-score fields with the event's values.
C26_UpsertEffect ==
    [][\A p \in Procs :
          Upserts(p) =>
             LET attack_data == AttackData(p)
                 before == IpRows(ip_statistics, attack_data.source_ip)
                 after == IpRows(ip_statistics', attack_data.source_ip)
             IN  /\ after # {}
                 /\ \A row \in after :
                       /\ CarriesEvent(row, attack_data)
                       /\ IF before = {}
                          THEN /\ row.first_seen = attack_data.timestamp
                               /\ row.last_seen = attack_data.timestamp
                               /\ row.total_attacks = 1
                               /\ CountersAdvance(row, NoCounters,
                                       attack_data.attack_type, 1)
                          ELSE \E old \in before :
                               /\ row.total_attacks = old.total_attacks + 1
                               /\ CountersAdvance(row, old,
                                       attack_data.attack_type, 1)
                               /\ row.total_bytes_sent =
                                     old.total_bytes_sent
                                     + attack_data.src_bytes
                               /\ row.total_bytes_received =
                                     old.total_bytes_received
                                     + attack_data.dst_bytes]_vars

\* where a detect call may go next from each of its positions: classified
\* (predict_single returned), accepted (threshold passed), fetching (enrich
\* is out on the network), assembled (enriched, VPN assessed, scored, record
\* built), logged (attack_logs row committed), selected (statistics read)
StepOrder ==
    {<<"idle", "classified">>,
     <<"classified", "accepted">>, <<"classified", "idle">>,
     <<"accepted", "fetching">>, <<"accepted", "assembled">>,
     <<"fetching", "assembled">>,
     <<"assembled", "logged">>, <<"assembled", "idle">>,
     <<"logged", "selected">>,
     <<"selected", "idle">>}

\* the call with locals l and history entry h is classified and has passed
\* the threshold check
PassedThreshold(l, h) ==
    /\ l.predicted_class \in {c.predicted_class : c \in Predictions}
    /\ l.predicted_class # "normal"
    /\ l.confidence >= PolicyThreshold(l.predicted_class)
    /\ h.verdict = "accepted"

\* the record l is scored from the VPN assessment of its enrichment
Scored(l, weights) ==
    /\ l.ip_info # NoInfo
    /\ \A vpn_info \in {VPNDetect(l.ip_info)} :
          /\ l.vpn_probability = vpn_info.probability
          /\ l.is_vpn = vpn_info.is_vpn
          /\ l.threat_score =
                calculate_score(l.predicted_class, l.confidence,
                                vpn_info.probability, weights)

\* the record in hand is the one that was classified, enriched and scored
SameRecord(l, m) ==
    /\ m.obs = l.obs
    /\ m.predicted_class = l.predicted_class
    /\ m.confidence = l.confidence
    /\ m.ip_info = l.ip_info
    /\ m.is_vpn = l.is_vpn
    /\ m.vpn_probability = l.vpn_probability
    /\ m.threat_score = l.threat_score
    /\ m.timestamp = l.timestamp

\* C27: within one detect call the steps are strictly sequential:
\* classification, threshold check, enrichment, VPN assessment, threat
\* scoring, attack_logs append, ip_statistics upsert; no later step starts
\* before the earlier one has finished.
C27_StepsSequential ==
    [][/\ \A p \in Procs :
             pc'[p] # pc[p] =>
                /\ <<pc[p], pc'[p]>> \in StepOrder
                /\ pc'[p] # "idle" =>
                      /\ cur'[p] = (IF pc[p] = "idle" THEN calls' ELSE cur[p])
                      /\ config' = config
                /\ pc'[p] \in {"accepted", "fetching", "assembled"} =>
                      \A l \in {loc'[p]} : \A h \in {hist'[cur'[p]]} :
                         /\ PassedThreshold(l, h)
                         /\ pc'[p] = "assembled" =>
                               \A weights \in {config.weights} :
                                  Scored(l, weights)
                /\ pc'[p] \in {"logged", "selected"} =>
                      SameRecord(loc[p], loc'[p])
                /\ pc'[p] = "selected" =>
                      /\ loc[p].attack_id \in 1..Len(attack_logs)
                      /\ attack_logs[loc[p].attack_id].raw_features = cur[p]
                      /\ attack_logs[loc[p].attack_id].threat_score
                            = loc[p].threat_score
       /\ (cache' # cache \/ netCalls' # netCalls) =>
             \E p \in Procs :
                 pc[p] \in {"accepted", "fetching"} /\ pc'[p] # pc[p]
       /\ attack_logs' # attack_logs =>
             \E p \in Procs : pc[p] = "assembled" /\ pc'[p] = "logged"
       /\ ip_statistics' # ip_statistics =>
             \E p \in Procs : pc[p] = "selected" /\ pc'[p] = "idle"]_vars

C27_Witness ==
    \E p \in Procs :
        /\ pc[p] = "idle"
        /\ \E k \in DOMAIN hist :
              /\ hist[k].result = "record"
              /\ RowsOf(k) # {}
              /\ IpRows(ip_statistics, hist[k].source_ip) # {}

\* caller p's detect call returns None in this step
ReturnsNone(p) ==
    /\ pc[p] # "idle"
    /\ pc'[p] = "idle"
    /\ hist'[cur[p]].result = None

\* C28: whenever detect returns None, the call has left the persisted store
\* unchanged: it appended no attack_logs row and created or updated no
\* ip_statistics row.
C28_NoneMeansNothingRecorded ==
    [][\A p \in Procs :
          ReturnsNone(p) =>
             /\ {i \in 1..Len(attack_logs') :
                    attack_logs'[i].raw_features = cur[p]} = {}
             /\ ip_statistics' = ip_statistics]_vars

\* C29: a failed lookup is memoized like a successful one: after enrich(a)
\* has returned the "unknown" record because the request failed, every later
\* enrich(a) returns that "unknown" record without a network call, as long
\* as the cache has not evicted the entry of a.
C29_FailureMemoized ==
    [][\A p \in Procs :
          \A f \in failed :
             (LooksUp(p) /\ f[1] = SourceIp(p) /\ f[2] < cur[p])
             => /\ netCalls' = netCalls
                /\ pc'[p] = "assembled"
                /\ loc'[p].ip_info = _get_unknown_info(SourceIp(p))]_vars

\* C30: in every reachable state and for every ip_statistics row,
\* total_connections equals total_attacks: both are 1 when the row is created
\* and both grow by exactly 1 on every later update.
C30_ConnectionsEqualAttacks ==
    [][/\ \A row \in ip_statistics' :
             row.total_connections = row.total_attacks
       /\ \A row \in ip_statistics' \ ip_statistics :
             LET old == IpRows(ip_statistics, row.ip_address)
             IN  IF old = {}
                 THEN row.total_connections = 1 /\ row.total_attacks = 1
                 ELSE \A o \in old :
                         /\ row.total_connections = o.total_connections + 1
                         /\ row.total_attacks = o.total_attacks + 1]_vars

C30_Witness ==
    \E row \in ip_statistics :
        row.total_attacks = 2 /\ row.total_connections = 2

====
